---- MODULE Spec2Model ----
(***************************************************************************)
(* A model of src/scraper.py: the Google Sheets export                     *)
(* (export_to_google_sheets), the Target work queue (get_target_users) and *)
(* the main loop (main).                                                   *)
(*                                                                         *)
(* Text is modelled as a sequence of one-character strings, so that        *)
(* str.strip, str.upper and clean_text are computed, not assumed.          *)
(* Column numbers are the Python (0-based) ones; Col(row, i) reads them.   *)
(***************************************************************************)
EXTENDS Integers, Sequences, FiniteSets, TLC

(***************************************************************************)
(* Bounds of the model                                                     *)
(***************************************************************************)
\* flushes the harness of SpecExport issues
MaxFlushes == 2
\* records in one batch handed to export_to_google_sheets by the harness
MaxBatch == 2
\* store or Target writes that raise, per behaviour
MaxFail == 1

(***************************************************************************)
(* Text                                                                    *)
(***************************************************************************)
\* the empty string
E == <<>>
\* the character U+00A0, which str.strip and \s treat as white space
NBSP == "nbsp"

WhiteSpace == {" ", "\n", "\t", NBSP}

RECURSIVE LStrip(_)
LStrip(s) ==
    IF s # <<>> /\ Head(s) \in WhiteSpace THEN LStrip(Tail(s)) ELSE s

RECURSIVE RStrip(_)
RStrip(s) ==
    IF s # <<>> /\ s[Len(s)] \in WhiteSpace
    THEN RStrip(SubSeq(s, 1, Len(s) - 1))
    ELSE s

\* str.strip()
Strip(s) == RStrip(LStrip(s))

\* str.replace(old, new) for a one-character old and a new of any length
RECURSIVE Replace(_, _, _)
Replace(s, old, new) ==
    IF s = <<>> THEN <<>>
    ELSE (IF Head(s) = old THEN new ELSE <<Head(s)>>) \o Replace(Tail(s), old, new)

UpperOf(c) ==
    CASE c = "p" -> "P" [] c = "e" -> "E" [] c = "n" -> "N" [] c = "d" -> "D"
      [] c = "i" -> "I" [] c = "g" -> "G" [] c = "c" -> "C" [] c = "o" -> "O"
      [] c = "m" -> "M" [] c = "l" -> "L" [] c = "t" -> "T" [] c = "s" -> "S"
      [] c = "u" -> "U" [] c = "r" -> "R" [] c = "a" -> "A"
      [] OTHER -> c

LowerOf(c) ==
    CASE c = "P" -> "p" [] c = "E" -> "e" [] c = "N" -> "n" [] c = "D" -> "d"
      [] c = "I" -> "i" [] c = "G" -> "g" [] c = "C" -> "c" [] c = "O" -> "o"
      [] c = "M" -> "m" [] c = "L" -> "l" [] c = "T" -> "t" [] c = "S" -> "s"
      [] c = "U" -> "u" [] c = "R" -> "r" [] c = "A" -> "a"
      [] OTHER -> c

\* str.upper()
Upper(s) == [i \in 1..Len(s) |-> UpperOf(s[i])]

\* str.lower()
Lower(s) == [i \in 1..Len(s) |-> LowerOf(s[i])]

\* re.sub(r'\s+', ' ', text)
RECURSIVE CollapseSpace(_)
CollapseSpace(s) ==
    IF s = <<>> THEN <<>>
    ELSE IF Head(s) \in WhiteSpace
         THEN <<" ">> \o CollapseSpace(LStrip(s))
         ELSE <<Head(s)>> \o CollapseSpace(Tail(s))

placeholder_texts ==
    { <<"n","o","t"," ","s","e","t">>, <<"n","o"," ","s","e","t">>,
      <<"n","o"," ","c","i","t","y">>, <<"n","o","n","e">>,
      <<"n","/","a">>, <<"n","u","l","l">> }

clean_text_replaced(text) ==
    Replace(Replace(Replace(Strip(text), NBSP, <<" ">>), "+", <<>>), "\n", <<" ">>)

clean_text(text) ==
    IF text = <<>> THEN <<>>
    ELSE IF Lower(clean_text_replaced(text)) \in placeholder_texts THEN <<>>
    ELSE Strip(CollapseSpace(clean_text_replaced(text)))

(***************************************************************************)
(* Sheets.  A worksheet is the sequence of its rows, a row the sequence of *)
(* its cells.                                                              *)
(***************************************************************************)
\* row[i] of the Python code, for a 0-based i the code has checked
Col(row, i) == row[i + 1]

RECURSIVE RTrimRow(_)
RTrimRow(r) ==
    IF r # <<>> /\ r[Len(r)] = E THEN RTrimRow(SubSeq(r, 1, Len(r) - 1)) ELSE r

MaxOf(S) == CHOOSE m \in S : \A n \in S : n <= m

SheetWidth(sheet) == MaxOf({0} \cup {Len(RTrimRow(sheet[i])) : i \in 1..Len(sheet)})

PadRow(r, w) == [i \in 1..w |-> IF i <= Len(r) THEN r[i] ELSE E]

\* worksheet.get_all_values(): every row, padded to the width of the widest;
\* an empty sheet reads as [] or as [[]], depending on the gspread version
get_all_values(sheet) ==
    IF sheet = <<>> THEN { <<>>, << <<>> >> }
    ELSE { [i \in 1..Len(sheet) |-> PadRow(RTrimRow(sheet[i]), SheetWidth(sheet))] }

\* append_row under the top-insertion policy: the row lands below the header
append_row_top(sheet, row) ==
    IF sheet = <<>> THEN <<row>>
    ELSE <<sheet[1], row>> \o SubSeq(sheet, 2, Len(sheet))

\* worksheet.append_row(row): the row lands below the last row of the table
append_row(sheet, row) == Append(sheet, row)

\* update_range replacing the row, whatever its width
update_range_whole(sheet, i, row) == [sheet EXCEPT ![i] = row]

\* worksheet.update('A<i>:N<i>', [row]): the cells of the range are replaced
update_range(sheet, i, row) ==
    [sheet EXCEPT ![i] = row \o SubSeq(sheet[i], Len(row) + 1, Len(sheet[i]))]

\* target_sheet.update_cell(r, c, value)
update_cell(sheet, r, c, value) ==
    [sheet EXCEPT ![r] = [PadRow(sheet[r], MaxOf({c, Len(sheet[r])})) EXCEPT ![c] = value]]

headers ==
    << <<"D","A","T","E">>, <<"T","I","M","E">>,
       <<"N","I","C","K","N","A","M","E">>, <<"T","A","G","S">>,
       <<"C","I","T","Y">>, <<"G","E","N","D","E","R">>,
       <<"M","A","R","R","I","E","D">>, <<"A","G","E">>,
       <<"J","O","I","N","E","D">>, <<"F","O","L","L","O","W","E","R","S">>,
       <<"P","O","S","T","S">>, <<"P","L","I","N","K">>,
       <<"P","I","M","A","G","E">>, <<"I","N","T","R","O">> >>

\* CITY, GENDER, MARRIED, AGE, JOINED, FOLLOWERS, POSTS, INTRO
key_fields == <<4, 5, 6, 7, 8, 9, 10, 13>>

(***************************************************************************)
(* Tags                                                                    *)
(***************************************************************************)
RECURSIVE Join(_, _)
Join(sep, parts) ==
    IF parts = <<>> THEN <<>>
    ELSE IF Len(parts) = 1 THEN parts[1]
    ELSE parts[1] \o sep \o Join(sep, Tail(parts))

\* the names of the tag columns TAGS_CONFIG knows (lines 76-81)
Following == <<"F","o","l","l","o","w","i","n","g">>
Followers == <<"F","o","l","l","o","w","e","r","s">>
Bookmark == <<"B","o","o","k","m","a","r","k">>

\* TAGS_CONFIG; every emoji is one character, written here by its name
TAGS_CONFIG ==
    (Following :> (<<"link", " ">> \o Following))
    @@ (Followers :> (<<"star", " ">> \o Followers))
    @@ (Bookmark :> (<<"bookmark", " ">> \o Bookmark))
    @@ (<<"P","e","n","d","i","n","g">> :>
           (<<"hourglass", " ">> \o <<"P","e","n","d","i","n","g">>))

\* line 576: TAGS_CONFIG.get(header.strip(), pin + header.strip())
tag_icon(header) ==
    IF Strip(header) \in DOMAIN TAGS_CONFIG THEN TAGS_CONFIG[Strip(header)]
    ELSE <<"pin", " ">> \o Strip(header)

\* lines 579-584, column c of tags_data from row r on: the label of the
\* column once for every cell that names nickname
RECURSIVE column_tags(_, _, _, _)
column_tags(tags_data, c, r, nickname) ==
    IF r > Len(tags_data) THEN <<>>
    ELSE (IF /\ c <= Len(tags_data[r])
             /\ Strip(tags_data[r][c]) # E
             /\ Strip(tags_data[r][c]) = nickname
          THEN << tag_icon(tags_data[1][c]) >> ELSE <<>>)
         \o column_tags(tags_data, c, r + 1, nickname)

\* lines 574-584, the columns from c on
RECURSIVE columns_tags(_, _, _)
columns_tags(tags_data, c, nickname) ==
    IF c > Len(tags_data[1]) THEN <<>>
    ELSE (IF Strip(tags_data[1][c]) # E
          THEN column_tags(tags_data, c, 2, nickname) ELSE <<>>)
         \o columns_tags(tags_data, c + 1, nickname)

\* get_tags_mapping keeping one label of a kind for a nickname
RECURSIVE Dedup(_)
Dedup(labels) ==
    IF labels = <<>> THEN <<>>
    ELSE LET rest == Dedup(SubSeq(labels, 1, Len(labels) - 1))
             last == labels[Len(labels)]
         IN  IF \E n \in 1..Len(rest) : rest[n] = last THEN rest
             ELSE Append(rest, last)

tags_of_sheet_once(tags_data) ==
    LET nicks == {Strip(tags_data[r][c]) :
                     r \in 2..Len(tags_data), c \in 1..Len(tags_data[1])} \ {E}
        tagged == {n \in nicks : columns_tags(tags_data, 1, n) # <<>>}
    IN  [n \in tagged |-> Dedup(columns_tags(tags_data, 1, n))]

\* lines 570-588: the Tag Index of a Tags sheet that was read
tags_of_sheet(tags_data) ==
    LET nicks == {Strip(tags_data[r][c]) :
                     r \in 2..Len(tags_data), c \in 1..Len(tags_data[1])} \ {E}
        tagged == {n \in nicks : columns_tags(tags_data, 1, n) # <<>>}
    IN  [n \in tagged |-> columns_tags(tags_data, 1, n)]

\* lines 552-588; present: whether the workbook holds a sheet "Tags"
get_tags_mapping(present, sheet) ==
    IF ~present \/ sheet = <<>> THEN <<>>
    ELSE tags_of_sheet(CHOOSE d \in get_all_values(sheet) : TRUE)

\* tags_mapping is a function from nicknames to sequences of labels
get_tags_for_nickname(nickname, mapping) ==
    IF DOMAIN mapping = {} \/ nickname \notin DOMAIN mapping THEN E
    ELSE IF mapping[nickname] # <<>> THEN Join(<<",", " ">>, mapping[nickname]) ELSE E

(***************************************************************************)
(* The reconciliation of one record (export_to_google_sheets, loop body)   *)
(***************************************************************************)
\* the Row Index: nickname -> [row_index, data], a later row replacing an
\* earlier one of the same nickname
RowHasNick(row) == Len(row) > 2 /\ Strip(Col(row, 2)) # E

\* build_existing_rows stopping one row short of the end of the data
build_existing_rows_short(existing_data) ==
    LET named == {i \in 2..(Len(existing_data) - 1) : RowHasNick(existing_data[i])}
        nicks == {Strip(Col(existing_data[i], 2)) : i \in named}
        last(n) == MaxOf({i \in named : Strip(Col(existing_data[i], 2)) = n})
    IN  [n \in nicks |-> [row_index |-> last(n), data |-> existing_data[last(n)]]]

\* build_existing_rows keeping the first row of a nickname
build_existing_rows_first(existing_data) ==
    LET named == {i \in 2..Len(existing_data) : RowHasNick(existing_data[i])}
        nicks == {Strip(Col(existing_data[i], 2)) : i \in named}
        first(n) == CHOOSE i \in named :
                       /\ Strip(Col(existing_data[i], 2)) = n
                       /\ \A j \in named :
                             Strip(Col(existing_data[j], 2)) = n => i <= j
    IN  [n \in nicks |-> [row_index |-> first(n), data |-> existing_data[first(n)]]]

build_existing_rows(existing_data) ==
    LET named == {i \in 2..Len(existing_data) : RowHasNick(existing_data[i])}
        nicks == {Strip(Col(existing_data[i], 2)) : i \in named}
        last(n) == MaxOf({i \in named : Strip(Col(existing_data[i], 2)) = n})
    IN  [n \in nicks |-> [row_index |-> last(n), data |-> existing_data[last(n)]]]

\* the projected row of a profile, TAGS already resolved
project_row(profile, nickname) ==
    << profile.DATE, profile.TIME, nickname, profile.TAGS, profile.CITY,
       profile.GENDER, profile.MARRIED, profile.AGE, profile.JOINED,
       profile.FOLLOWERS, profile.POSTS, profile.PLINK, profile.PIMAGE,
       clean_text(profile.INTRO) >>

\* field_changed filling blanks only: a stored value is never replaced
field_changed_blank(existing, row, field_idx) ==
    LET existing_value == IF field_idx < Len(existing) THEN Col(existing, field_idx) ELSE E
        new_value == IF field_idx < Len(row) THEN Col(row, field_idx) ELSE E
    IN  existing_value = E /\ new_value # E

field_changed(existing, row, field_idx) ==
    LET existing_value == IF field_idx < Len(existing) THEN Col(existing, field_idx) ELSE E
        new_value == IF field_idx < Len(row) THEN Col(row, field_idx) ELSE E
    IN  existing_value # new_value /\ new_value # E

\* tags_changed under the monotonic-fill rule of the other columns
tags_changed_filled(existing, row) ==
    LET existing_tags == IF Len(existing) > 3 THEN Col(existing, 3) ELSE E
    IN  existing_tags # Col(row, 3) /\ Col(row, 3) # E

tags_changed(existing, row) ==
    LET existing_tags == IF Len(existing) > 3 THEN Col(existing, 3) ELSE E
    IN  existing_tags # Col(row, 3)

\* needs_update comparing the observation date as well
needs_update_dated(existing, row) ==
    \/ \E j \in 1..Len(key_fields) : field_changed(existing, row, key_fields[j])
    \/ tags_changed(existing, row)
    \/ Col(existing, 0) # Col(row, 0)

\* needs_update comparing every column of the row
needs_update_all(existing, row) == PadRow(existing, 14) # row

needs_update(existing, row) ==
    \/ \E j \in 1..Len(key_fields) : field_changed(existing, row, key_fields[j])
    \/ tags_changed(existing, row)

(***************************************************************************)
(* State                                                                   *)
(***************************************************************************)
VARIABLES
    titles,          \* the titles of the worksheets the workbook holds
    tags_sheet,      \* the worksheet "Tags"
    sheet1,          \* workbook.sheet1, the store
    target_sheet,    \* the worksheet "Target"
    tags_mapping,    \* the Tag Index of the run
    stats,           \* the global ScraperStats
    fails,           \* writes that raised so far
    flushes,         \* calls of export_to_google_sheets so far
    \* export_to_google_sheets: its position, parameters and locals
    pcX, profiles_batch, target_updates, existing_rows, k, counts, ret,
    \* what the current flush did: the store it started from, the Target
    \* cell writes and the outcome of every record, in order
    sheet0, cells, xlog,
    burst,           \* write requests issued since the last time.sleep
    \* the harness of SpecExport: whether the current flush repeats the batch
    \* of the one before, and what that one did
    repeat, prev_xlog,
    \* main: its position and locals, and the targets it attempted, in order
    pcM, target_users, i, scraped_profiles, main_target_updates, attempts,
    logged           \* what main and get_tags_mapping have reported so far

xvars == <<pcX, profiles_batch, target_updates, existing_rows, k, counts, ret,
           sheet0, cells, xlog>>

hvars == <<repeat, prev_xlog>>

mvars == <<pcM, target_users, i, scraped_profiles, main_target_updates, attempts,
           logged>>

ScraperStats ==
    [total |-> 0, current |-> 0, success |-> 0, errors |-> 0,
     new_profiles |-> 0, updated_profiles |-> 0]

(***************************************************************************)
(* export_to_google_sheets(profiles_batch, tags_mapping, target_updates)   *)
(***************************************************************************)
COMPLETED == <<"C","O","M","P","L","E","T","E","D">>
PENDING == <<"P","E","N","D","I","N","G">>
\* datetime.now().strftime("%Y-%m-%d %H:%M")
NOW == <<"n","o","w">>

\* lines 604-615: nothing to do, or the client or the workbook cannot be had
export_begin(batch, updates) ==
    /\ flushes' = flushes + 1
    /\ profiles_batch' = batch
    /\ target_updates' = updates
    /\ existing_rows' = <<>>
    /\ k' = 1
    /\ counts' = [new_count |-> 0, updated_count |-> 0]
    /\ sheet0' = sheet1
    /\ cells' = <<>>
    /\ xlog' = <<>>
    /\ IF batch = <<>> /\ updates = <<>>
       THEN pcX' = "return" /\ ret' = FALSE /\ fails' = fails
       ELSE \/ /\ fails < MaxFail
               /\ fails' = fails + 1
               /\ pcX' = "return" /\ ret' = FALSE
            \/ /\ fails' = fails
               /\ ret' = ret
               /\ pcX' = IF updates # <<>> THEN "targets" ELSE "load"

\* update_writes storing the status in capitals, as it is compared
update_writes_upper(update) ==
    << [r |-> update.row_index, c |-> 2, value |-> Upper(update.status)] >>
    \o (IF Upper(update.status) = COMPLETED
        THEN << [r |-> update.row_index, c |-> 3, value |-> NOW] >> ELSE <<>>)
    \o (IF update.notes # E
        THEN << [r |-> update.row_index, c |-> 4, value |-> update.notes] >> ELSE <<>>)

\* the cell writes of one target update, in order (lines 626-636)
update_writes(update) ==
    << [r |-> update.row_index, c |-> 2, value |-> update.status] >>
    \o (IF Upper(update.status) = COMPLETED
        THEN << [r |-> update.row_index, c |-> 3, value |-> NOW] >> ELSE <<>>)
    \o (IF update.notes # E
        THEN << [r |-> update.row_index, c |-> 4, value |-> update.notes] >> ELSE <<>>)

RECURSIVE apply_cells(_, _)
apply_cells(sheet, ws) ==
    IF ws = <<>> THEN sheet
    ELSE apply_cells(update_cell(sheet, ws[1].r, ws[1].c, ws[1].value), Tail(ws))

after_targets == IF profiles_batch = <<>> THEN "return" ELSE "load"

\* lines 621-640, one target update: its cell writes, of which the f-th
\* raises (f = 0: none); a raise ends the handling of target updates
export_target ==
    /\ pcX = "targets"
    /\ k <= Len(target_updates)
    /\ LET ws == update_writes(target_updates[k])
       IN  \E f \in 0..Len(ws) :
             /\ f > 0 => fails < MaxFail
             /\ fails' = IF f > 0 THEN fails + 1 ELSE fails
             /\ LET done == IF f = 0 THEN ws ELSE SubSeq(ws, 1, f - 1)
                IN  /\ target_sheet' = apply_cells(target_sheet, done)
                    /\ cells' = cells
                         \o [n \in 1..Len(done) |-> [w |-> done[n], ok |-> TRUE]]
                         \o (IF f > 0 THEN << [w |-> ws[f], ok |-> FALSE] >> ELSE <<>>)
             /\ burst' = burst + (IF f = 0 THEN Len(ws) ELSE f)
             /\ IF f > 0 \/ k = Len(target_updates)
                THEN /\ k' = 1
                     /\ pcX' = after_targets
                     /\ ret' = IF profiles_batch = <<>> THEN TRUE ELSE ret
                ELSE /\ k' = k + 1
                     /\ pcX' = pcX
                     /\ ret' = ret
    /\ UNCHANGED <<sheet1, tags_mapping, stats, flushes, profiles_batch,
                   target_updates, existing_rows, counts, sheet0, xlog>>

\* what the flush did with record n of the batch (n = 0: the header row)
Entry(n, profile, d, ri, row, ok) ==
    [k |-> n, profile |-> profile, decision |-> d, row_index |-> ri,
     row |-> row, ok |-> ok]

\* lines 650-666: the header of an empty store, or the Row Index
export_load ==
    /\ pcX = "load"
    /\ \E existing_data \in get_all_values(sheet1) :
         IF existing_data = <<>> \/ existing_data[1] = <<>>
         THEN \/ /\ sheet1' = append_row(sheet1, headers)
                 /\ xlog' = Append(xlog, Entry(0, <<>>, "HEADER", 0, headers, TRUE))
                 /\ existing_rows' = <<>>
                 /\ pcX' = "loop"
                 /\ burst' = burst + 1
                 /\ UNCHANGED <<fails, ret>>
              \/ /\ fails < MaxFail
                 /\ fails' = fails + 1
                 /\ xlog' = Append(xlog, Entry(0, <<>>, "HEADER", 0, headers, FALSE))
                 /\ pcX' = "return" /\ ret' = FALSE
                 /\ burst' = burst + 1
                 /\ UNCHANGED <<sheet1, existing_rows>>
         ELSE /\ existing_rows' = build_existing_rows(existing_data)
              /\ pcX' = "loop"
              /\ UNCHANGED <<sheet1, xlog, fails, ret, burst>>
    /\ k' = 1
    /\ UNCHANGED <<target_sheet, tags_mapping, stats, flushes, profiles_batch,
                   target_updates, counts, sheet0, cells>>

\* write_raises counting the record in the run statistics
write_raises_stats(profile, d, ri, row) ==
    /\ fails < MaxFail
    /\ fails' = fails + 1
    /\ burst' = burst + 1
    /\ xlog' = Append(xlog, Entry(k, profile, d, ri, row, FALSE))
    /\ stats' = IF d = "UPDATE"
                THEN [stats EXCEPT !.updated_profiles = @ + 1]
                ELSE [stats EXCEPT !.new_profiles = @ + 1]
    /\ UNCHANGED <<sheet1, counts>>

\* write_raises counting the record although its write raised
write_raises_counted(profile, d, ri, row) ==
    /\ fails < MaxFail
    /\ fails' = fails + 1
    /\ burst' = burst + 1
    /\ xlog' = Append(xlog, Entry(k, profile, d, ri, row, FALSE))
    /\ counts' = IF d = "UPDATE"
                 THEN [counts EXCEPT !.updated_count = @ + 1]
                 ELSE [counts EXCEPT !.new_count = @ + 1]
    /\ UNCHANGED <<sheet1, stats>>

\* a write of the loop body that raises: caught and logged (lines 728, 739)
write_raises(profile, d, ri, row) ==
    /\ fails < MaxFail
    /\ fails' = fails + 1
    /\ burst' = burst + 1
    /\ xlog' = Append(xlog, Entry(k, profile, d, ri, row, FALSE))
    /\ UNCHANGED <<sheet1, counts, stats>>

\* lines 718-726
write_update(profile, ri, row) ==
    /\ sheet1' = update_range(sheet1, ri, row)
    /\ burst' = burst + 1
    /\ counts' = [counts EXCEPT !.updated_count = @ + 1]
    /\ stats' = [stats EXCEPT !.updated_profiles = @ + 1]
    /\ xlog' = Append(xlog, Entry(k, profile, "UPDATE", ri, row, TRUE))
    /\ fails' = fails

\* lines 734-738
write_create(profile, row) ==
    /\ sheet1' = append_row(sheet1, row)
    /\ burst' = burst + 1
    /\ counts' = [counts EXCEPT !.new_count = @ + 1]
    /\ stats' = [stats EXCEPT !.new_profiles = @ + 1]
    /\ xlog' = Append(xlog, Entry(k, profile, "CREATE", 0, row, TRUE))
    /\ fails' = fails

\* no_write counting a record without a nickname as an error
no_write_error(profile, d, ri, row) ==
    /\ xlog' = Append(xlog, Entry(k, profile, d, ri, row, TRUE))
    /\ stats' = IF d = "DROP" THEN [stats EXCEPT !.errors = @ + 1] ELSE stats
    /\ UNCHANGED <<sheet1, counts, fails, burst>>

\* lines 669-671 and 730-731: nothing is written
no_write(profile, d, ri, row) ==
    /\ xlog' = Append(xlog, Entry(k, profile, d, ri, row, TRUE))
    /\ UNCHANGED <<sheet1, counts, stats, fails, burst>>

\* lines 668-740, one record of the batch
export_record ==
    /\ pcX = "loop"
    /\ k <= Len(profiles_batch)
    /\ LET profile == profiles_batch[k]
           nickname == Strip(profile.NICKNAME)
           tagged == [profile EXCEPT !.TAGS = get_tags_for_nickname(nickname, tags_mapping)]
           row == project_row(tagged, nickname)
       IN  IF nickname = E
           THEN /\ no_write(profile, "DROP", 0, <<>>)
                /\ profiles_batch' = profiles_batch
           ELSE /\ profiles_batch' = [profiles_batch EXCEPT ![k] = tagged]
                /\ IF nickname \in DOMAIN existing_rows
                   THEN LET existing_info == existing_rows[nickname]
                        IN  IF needs_update(existing_info.data, row)
                            THEN \/ write_update(profile, existing_info.row_index, row)
                                 \/ write_raises(profile, "UPDATE",
                                                 existing_info.row_index, row)
                            ELSE no_write(profile, "NOOP", existing_info.row_index, row)
                   ELSE \/ write_create(profile, row)
                        \/ write_raises(profile, "CREATE", 0, row)
    /\ k' = k + 1
    /\ UNCHANGED <<target_sheet, tags_mapping, flushes, pcX, target_updates,
                   existing_rows, ret, sheet0, cells>>

\* lines 742-743
export_end ==
    /\ pcX = "loop"
    /\ k > Len(profiles_batch)
    /\ pcX' = "return"
    /\ ret' = TRUE
    /\ UNCHANGED <<sheet1, target_sheet, tags_mapping, stats, fails, flushes,
                   profiles_batch, target_updates, existing_rows, k, counts,
                   sheet0, cells, xlog, burst>>

(***************************************************************************)
(* The values the model draws its inputs from                              *)
(***************************************************************************)
NickA == <<"a">>
NickB == <<"b">>
D1 == <<"d","1">>
D2 == <<"d","2">>
CityK == <<"K">>
CityL == <<"L">>
Age9 == <<"9">>
Hi == <<"h","i">>
TagF == <<"F">>
TagB == <<"B">>

Profile(n, d, c, a, intro) ==
    [DATE |-> d, TIME |-> <<"t">>, NICKNAME |-> n, TAGS |-> E, CITY |-> c,
     GENDER |-> E, MARRIED |-> E, AGE |-> a, JOINED |-> E, FOLLOWERS |-> E,
     POSTS |-> E, PLINK |-> E, PIMAGE |-> E, INTRO |-> intro]

StoreRow(n, d, tags, c, a, intro) ==
    <<d, <<"t">>, n, tags, c, E, E, a, E, E, E, E, E, intro>>

\* the records handed to the export: for one nickname every CITY, an empty
\* AGE, a placeholder and a padded INTRO and a later observation (DATE,
\* TIME, PLINK and PIMAGE); a second nickname, a padded nickname and a blank
\* one
HarnessProfiles ==
    {Profile(NickA, D1, c, Age9, Hi) : c \in {E, CityK, CityL}}
    \cup {Profile(NickA, D1, CityK, E, Hi)}
    \cup {Profile(NickA, D1, CityL, Age9, intro) :
            intro \in {<<"N","o","n","e">>, <<"h","i","\n">>}}
    \cup {[Profile(NickA, D2, CityL, Age9, Hi) EXCEPT
              !.TIME = <<"t","2">>, !.PLINK = <<"p">>, !.PIMAGE = <<"q">>],
          Profile(NickB, D1, CityK, E, E),
          Profile(<<" ","a">>, D1, CityK, E, E),
          Profile(<<" ">>, D1, CityK, E, E)}

RECURSIVE SeqsUpTo(_, _)
SeqsUpTo(S, n) ==
    IF n = 0 THEN {<<>>}
    ELSE LET shorter == SeqsUpTo(S, n - 1)
         IN  shorter \cup {Append(q, x) : q \in {t \in shorter : Len(t) = n - 1}, x \in S}

HarnessBatches == SeqsUpTo(HarnessProfiles, MaxBatch)

\* the stores a run can find: empty; header only; one stored profile; a
\* store with a nickname on two rows; a store three columns wide; a store
\* whose first row is blank and whose data row has a fifteenth column
InitStores ==
    { <<>>,
      <<headers>>,
      <<headers, StoreRow(NickA, D1, TagF, CityL, Age9, Hi)>>,
      <<headers, StoreRow(NickA, D1, E, CityK, E, E),
                 StoreRow(NickB, D1, E, CityK, E, E),
                 StoreRow(NickA, D1, TagF, CityL, Age9, Hi)>>,
      << <<headers[1], headers[2], headers[3]>>, <<D1, <<"t">>, NickA>> >>,
      << [c \in 1..14 |-> E],
         StoreRow(NickA, D1, TagF, CityL, Age9, Hi) \o << <<"x">> >> >> }

InitTagMaps ==
    { <<>>, (NickA :> <<TagF>>) @@ (NickB :> <<TagF, TagB>>) }

InitTargetSheet ==
    << << <<"U","S","E","R","N","A","M","E">>, <<"S","T","A","T","U","S">> >> >>

InitCommon ==
    /\ burst = 0
    /\ repeat = FALSE
    /\ prev_xlog = <<>>
    /\ stats = ScraperStats
    /\ fails = 0
    /\ flushes = 0
    /\ pcX = "idle"
    /\ profiles_batch = <<>>
    /\ target_updates = <<>>
    /\ existing_rows = <<>>
    /\ k = 1
    /\ counts = [new_count |-> 0, updated_count |-> 0]
    /\ ret = FALSE
    /\ cells = <<>>
    /\ xlog = <<>>

(***************************************************************************)
(* SpecExport: export_to_google_sheets called with any batch, against any  *)
(* store, target_updates left at its default (None)                        *)
(***************************************************************************)
InitExport ==
    /\ titles = {"Target", "Tags"}
    /\ tags_sheet = <<>>
    /\ sheet1 \in InitStores
    /\ sheet0 = sheet1
    /\ target_sheet = InitTargetSheet
    /\ tags_mapping \in InitTagMaps
    /\ InitCommon
    /\ pcM = "harness"
    /\ target_users = <<>>
    /\ i = 1
    /\ scraped_profiles = <<>>
    /\ main_target_updates = <<>>
    /\ attempts = <<>>
    /\ logged = {}

HarnessCall ==
    /\ pcX = "idle"
    /\ flushes < MaxFlushes
    /\ \E batch \in HarnessBatches : export_begin(batch, <<>>)
    /\ UNCHANGED <<titles, tags_sheet, sheet1, target_sheet, tags_mapping, stats, burst,
                   hvars, mvars>>

\* the flush that returned is issued again, after a pause, with the same
\* records
HarnessAgain ==
    /\ pcX = "return"
    /\ flushes < MaxFlushes
    /\ ~repeat
    /\ profiles_batch # <<>>
    /\ export_begin(profiles_batch, <<>>)
    /\ repeat' = TRUE
    /\ prev_xlog' = xlog
    /\ burst' = 0
    /\ UNCHANGED <<titles, tags_sheet, sheet1, target_sheet, tags_mapping, stats, mvars>>

\* the call returns: its parameters and locals are gone
export_return ==
    /\ pcX = "return"
    /\ pcX' = "idle"
    /\ profiles_batch' = <<>>
    /\ target_updates' = <<>>
    /\ existing_rows' = <<>>
    /\ k' = 1
    /\ counts' = [new_count |-> 0, updated_count |-> 0]
    /\ ret' = FALSE
    /\ sheet0' = sheet1
    /\ cells' = <<>>
    /\ xlog' = <<>>

\* the caller pauses between two flushes, as main does (line 840)
HarnessReturn ==
    /\ export_return
    /\ repeat' = FALSE
    /\ prev_xlog' = <<>>
    /\ burst' = 0
    /\ UNCHANGED <<titles, tags_sheet, sheet1, target_sheet, tags_mapping, stats, fails,
                   flushes, mvars>>

vars == <<titles, tags_sheet, sheet1, target_sheet, tags_mapping, stats, fails, flushes, burst,
          xvars, hvars, mvars>>

NextExport ==
    \/ HarnessCall
    \/ HarnessAgain
    \/ (export_load /\ UNCHANGED <<titles, tags_sheet, hvars, mvars>>)
    \/ (export_record /\ UNCHANGED <<titles, tags_sheet, hvars, mvars>>)
    \/ (export_end /\ UNCHANGED <<titles, tags_sheet, hvars, mvars>>)
    \/ HarnessReturn

SpecExport == InitExport /\ [][NextExport]_vars

(***************************************************************************)
(* get_target_users                                                        *)
(***************************************************************************)
\* needle in text, for strings
Contains(text, needle) ==
    \E n \in 0..(Len(text) - Len(needle)) :
        SubSeq(text, n + 1, n + Len(needle)) = needle

USERNAME == <<"U","S","E","R","N","A","M","E">>
STATUS == <<"S","T","A","T","U","S">>

\* pending_users comparing the cells as they are stored
RECURSIVE pending_users_raw(_, _)
pending_users_raw(target_data, n) ==
    IF n > Len(target_data) THEN <<>>
    ELSE LET row == target_data[n]
             username == Col(row, 0)
             status == Col(row, 1)
         IN  (IF Len(row) >= 2 /\ username # E /\ status = PENDING
              THEN << [username |-> username, row_index |-> n, status |-> status] >>
              ELSE <<>>)
             \o pending_users_raw(target_data, n + 1)

\* lines 349-361: the pending rows among rows n.. of target_data
RECURSIVE pending_users(_, _)
pending_users(target_data, n) ==
    IF n > Len(target_data) THEN <<>>
    ELSE LET row == target_data[n]
             username == Strip(Col(row, 0))
             status == Upper(Strip(Col(row, 1)))
         IN  (IF Len(row) >= 2 /\ username # E /\ status = PENDING
              THEN << [username |-> username, row_index |-> n, status |-> status] >>
              ELSE <<>>)
             \o pending_users(target_data, n + 1)

\* get_target_users taking any first row for the header
get_target_users_any(present, sheet) ==
    IF ~present THEN <<>>
    ELSE LET target_data == CHOOSE d \in get_all_values(sheet) : TRUE
         IN  IF target_data = <<>> \/ Len(target_data) < 2 THEN <<>>
             ELSE pending_users(target_data, 2)

\* lines 331-364; present: whether the workbook holds a sheet "Target"
get_target_users(present, sheet) ==
    IF ~present THEN <<>>
    ELSE LET target_data == CHOOSE d \in get_all_values(sheet) : TRUE
         IN  IF target_data = <<>> \/ Len(target_data) < 2 THEN <<>>
             ELSE IF \/ Len(target_data[1]) < 2
                     \/ ~Contains(Upper(Col(target_data[1], 0)), USERNAME)
                     \/ ~Contains(Upper(Col(target_data[1], 1)), STATUS)
                  THEN <<>>
                  ELSE pending_users(target_data, 2)

(***************************************************************************)
(* main                                                                    *)
(***************************************************************************)
batch_size == 5

Completed == <<"C","o","m","p","l","e","t","e","d">>
Pending == <<"P","e","n","d","i","n","g">>
\* 'Successfully scraped', 'Scraping failed - will retry', 'Error: ...'
NoteScraped == <<"S">>
NoteFailed == <<"F">>
NoteError == <<"E","r","r">>

\* scrape_profile(driver, nickname) when the page loads (lines 407-507)
scraped(nickname) == Profile(nickname, D1, CityK, E, E)

\* lines 755-758
main_browser ==
    /\ pcM = "browser"
    /\ \/ pcM' = "login" /\ logged' = logged
       \/ pcM' = "done" /\ logged' = logged \cup {"browser_failed"}
    /\ UNCHANGED <<titles, tags_sheet, sheet1, target_sheet, tags_mapping, stats, fails,
                   flushes, burst, xvars, hvars, target_users, i,
                   scraped_profiles, main_target_updates, attempts>>

\* main_login going on to the export after a login that failed
main_login_continue ==
    /\ pcM = "login"
    /\ \/ pcM' = "client" /\ logged' = logged
       \/ pcM' = "client" /\ logged' = logged \cup {"auth_failed"}
    /\ UNCHANGED <<titles, tags_sheet, sheet1, target_sheet, tags_mapping, stats, fails,
                   flushes, burst, xvars, hvars, target_users, i,
                   scraped_profiles, main_target_updates, attempts>>

\* lines 762-764
main_login ==
    /\ pcM = "login"
    /\ \/ pcM' = "client" /\ logged' = logged
       \/ pcM' = "finally" /\ logged' = logged \cup {"auth_failed"}
    /\ UNCHANGED <<titles, tags_sheet, sheet1, target_sheet, tags_mapping, stats, fails,
                   flushes, burst, xvars, hvars, target_users, i,
                   scraped_profiles, main_target_updates, attempts>>

\* main_client ending the run when the Tag Index cannot be had
main_client_tags_fatal ==
    /\ pcM = "client"
    /\ \/ /\ pcM' = IF "Tags" \in titles THEN "targets" ELSE "finally"
          /\ tags_mapping' = get_tags_mapping("Tags" \in titles, tags_sheet)
          /\ logged' = IF "Tags" \in titles THEN logged
                       ELSE logged \cup {"tags_missing"}
          /\ fails' = fails
       \/ /\ "Tags" \in titles
          /\ fails < MaxFail
          /\ fails' = fails + 1
          /\ pcM' = "finally"
          /\ tags_mapping' = <<>>
          /\ logged' = logged \cup {"tags_failed"}
       \/ /\ pcM' = "finally"
          /\ tags_mapping' = tags_mapping
          /\ logged' = logged \cup {"sheets_failed"}
          /\ fails' = fails
    /\ UNCHANGED <<titles, tags_sheet, sheet1, target_sheet, stats,
                   flushes, burst, xvars, hvars, target_users, i,
                   scraped_profiles, main_target_updates, attempts>>

\* lines 767-772: the client, then get_tags_mapping, which reports a missing
\* sheet or a read that raised and returns an empty Tag Index
main_client ==
    /\ pcM = "client"
    /\ \/ /\ pcM' = "targets"
          /\ tags_mapping' = get_tags_mapping("Tags" \in titles, tags_sheet)
          /\ logged' = IF "Tags" \in titles THEN logged
                       ELSE logged \cup {"tags_missing"}
          /\ fails' = fails
       \/ /\ "Tags" \in titles
          /\ fails < MaxFail
          /\ fails' = fails + 1
          /\ pcM' = "targets"
          /\ tags_mapping' = <<>>
          /\ logged' = logged \cup {"tags_failed"}
       \/ /\ pcM' = "finally"
          /\ tags_mapping' = tags_mapping
          /\ logged' = logged \cup {"sheets_failed"}
          /\ fails' = fails
    /\ UNCHANGED <<titles, tags_sheet, sheet1, target_sheet, stats,
                   flushes, burst, xvars, hvars, target_users, i,
                   scraped_profiles, main_target_updates, attempts>>

\* lines 775-785
main_targets ==
    /\ pcM = "targets"
    /\ target_users' = get_target_users("Target" \in titles, target_sheet)
    /\ IF target_users' = <<>>
       THEN /\ pcM' = "finally" /\ stats' = stats
            /\ logged' = logged \cup {"no_targets"}
       ELSE /\ pcM' = "loop" /\ stats' = [stats EXCEPT !.total = Len(target_users')]
            /\ logged' = logged
    /\ i' = 1
    /\ scraped_profiles' = <<>>
    /\ main_target_updates' = <<>>
    /\ UNCHANGED <<titles, tags_sheet, sheet1, target_sheet, tags_mapping, fails, flushes,
                   burst, xvars, hvars, attempts>>

TargetUpdate(row_index, status, notes) ==
    [row_index |-> row_index, status |-> status, notes |-> notes]

\* lines 838-840: the iteration ends with a pause
next_target ==
    /\ burst' = 0
    /\ i' = i + 1

\* lines 822-823 (and 843-844): the flush, the lists as they are
main_export(profiles, updates, at) ==
    /\ export_begin(profiles, updates)
    /\ pcM' = at
    /\ UNCHANGED <<burst, i>>

\* flush_due looking at the records alone
flush_due_records(profiles, updates) == Len(profiles) >= batch_size

\* line 822
flush_due(profiles, updates) ==
    Len(profiles) >= batch_size \/ Len(updates) >= batch_size

\* lines 789 and 800
count_success(n) == [stats EXCEPT !.current = n, !.success = @ + 1]

\* count_error leaving the failure uncounted when nothing was raised
count_error_raised(n, outcome) ==
    IF outcome = "raise" THEN [stats EXCEPT !.current = n, !.errors = @ + 1]
    ELSE [stats EXCEPT !.current = n]

\* lines 789, 812 and 828
count_error(n, outcome) == [stats EXCEPT !.current = n, !.errors = @ + 1]

\* lines 788-840, one target: scrape_profile returns a profile, returns
\* None or raises
main_attempt ==
    /\ pcM = "loop"
    /\ i <= Len(target_users)
    /\ LET nickname == target_users[i].username
           row_index == target_users[i].row_index
       IN  \/ /\ attempts' = Append(attempts, [row_index |-> row_index,
                      username |-> nickname, outcome |-> "profile"])
              /\ stats' = count_success(i)
              /\ scraped_profiles' = Append(scraped_profiles, scraped(nickname))
              /\ main_target_updates' = Append(main_target_updates,
                      TargetUpdate(row_index, Completed, NoteScraped))
              /\ IF flush_due(scraped_profiles', main_target_updates')
                 THEN main_export(scraped_profiles', main_target_updates', "export")
                 ELSE next_target /\ UNCHANGED <<pcM, fails, flushes, xvars>>
           \/ /\ attempts' = Append(attempts, [row_index |-> row_index,
                      username |-> nickname, outcome |-> "none"])
              /\ stats' = count_error(i, "none")
              /\ scraped_profiles' = scraped_profiles
              /\ main_target_updates' = Append(main_target_updates,
                      TargetUpdate(row_index, Pending, NoteFailed))
              /\ IF flush_due(scraped_profiles', main_target_updates')
                 THEN main_export(scraped_profiles', main_target_updates', "export")
                 ELSE next_target /\ UNCHANGED <<pcM, fails, flushes, xvars>>
           \/ /\ attempts' = Append(attempts, [row_index |-> row_index,
                      username |-> nickname, outcome |-> "raise"])
              /\ stats' = count_error(i, "raise")
              /\ scraped_profiles' = scraped_profiles
              /\ main_target_updates' = Append(main_target_updates,
                      TargetUpdate(row_index, Pending, NoteError))
              /\ next_target
              /\ UNCHANGED <<pcM, fails, flushes, xvars>>
    /\ UNCHANGED <<titles, tags_sheet, sheet1, target_sheet, tags_mapping, hvars,
                   target_users, logged>>

\* lines 824-825 and 838-840: the flush has returned, whatever it returned
main_flushed ==
    /\ pcM = "export"
    /\ export_return
    /\ scraped_profiles' = <<>>
    /\ main_target_updates' = <<>>
    /\ pcM' = "loop"
    /\ next_target
    /\ UNCHANGED <<titles, tags_sheet, sheet1, target_sheet, tags_mapping, stats, fails,
                   flushes, hvars, target_users, attempts, logged>>

\* lines 842-844
main_final ==
    /\ pcM = "loop"
    /\ i > Len(target_users)
    /\ IF scraped_profiles # <<>> \/ main_target_updates # <<>>
       THEN main_export(scraped_profiles, main_target_updates, "final_export")
       ELSE pcM' = "summary" /\ UNCHANGED <<fails, flushes, burst, i, xvars>>
    /\ UNCHANGED <<titles, tags_sheet, sheet1, target_sheet, tags_mapping, stats, hvars,
                   target_users, scraped_profiles, main_target_updates, attempts,
                   logged>>

main_final_flushed ==
    /\ pcM = "final_export"
    /\ export_return
    /\ pcM' = "summary"
    /\ logged' = logged
    /\ UNCHANGED <<titles, tags_sheet, sheet1, target_sheet, tags_mapping, stats, fails,
                   flushes, burst, hvars, target_users, i, scraped_profiles,
                   main_target_updates, attempts>>

\* lines 846-856
main_summary ==
    /\ pcM = "summary"
    /\ pcM' = "finally"
    /\ logged' = logged \cup {"summary"}
    /\ UNCHANGED <<titles, tags_sheet, sheet1, target_sheet, tags_mapping, stats, fails,
                   flushes, burst, xvars, hvars, target_users, i,
                   scraped_profiles, main_target_updates, attempts>>

\* main returns: its locals, and those of a flush under way, are gone
main_returns ==
    /\ pcM' = "done"
    /\ target_users' = <<>>
    /\ i' = 1
    /\ scraped_profiles' = <<>>
    /\ main_target_updates' = <<>>
    /\ pcX' = "idle"
    /\ profiles_batch' = <<>>
    /\ target_updates' = <<>>
    /\ existing_rows' = <<>>
    /\ k' = 1
    /\ counts' = [new_count |-> 0, updated_count |-> 0]
    /\ ret' = FALSE
    /\ sheet0' = sheet1
    /\ cells' = <<>>
    /\ xlog' = <<>>
    /\ attempts' = <<>>
    /\ UNCHANGED <<titles, tags_sheet, sheet1, target_sheet, tags_mapping, stats, fails,
                   flushes, burst, hvars>>

\* lines 858-867: KeyboardInterrupt anywhere in the try block, a flush under
\* way abandoned where it stands; then the finally clause
main_interrupt ==
    /\ pcM \in {"login", "client", "targets", "loop", "export", "final_export",
                "summary"}
    /\ main_returns
    /\ logged' = logged \cup {"interrupted", "completed"}

\* lines 862-867, after a return or the end of the try block
main_finally ==
    /\ pcM = "finally"
    /\ main_returns
    /\ logged' = logged \cup {"completed"}

(***************************************************************************)
(* Spec: one run of main                                                   *)
(***************************************************************************)
\* data rows of the largest Target sheet
MaxTargets == 6

\* write requests the store accepts without a pause
Quota == 10

User(n) == <<"u", ToString(n)>>

TargetHeader == <<USERNAME, STATUS, <<"L">>, <<"N">>>>

\* n rows, all to do
AllPending(n) ==
    <<TargetHeader>> \o [j \in 1..n |-> <<User(j), Pending, E, E>>]

\* done and to-do rows, a status in capitals, a padded status and a padded
\* user name that is another row's, a row without a user name, an unknown
\* status
MixedTargets ==
    << TargetHeader,
       <<User(1), Completed, NOW, NoteScraped>>,
       <<User(2), PENDING, E, E>>,
       <<<<" ">> \o User(2), <<" ","p","e","n","d","i","n","g"," ">>, E, E>>,
       <<E, Pending, E, E>>,
       <<User(3), <<"D","o","n","e">>, E, E>>,
       <<User(4), Pending, E, NoteFailed>> >>

TargetSheets ==
    { <<>>, <<TargetHeader>>, << <<<<"N","A","M","E">>, STATUS>>,
                                 <<User(1), Pending>> >>,
      MixedTargets, AllPending(1), AllPending(MaxTargets) }

MainStores ==
    { <<>>, <<headers, StoreRow(User(1), D1, E, CityL, E, E)>> }

\* a Tags sheet: a column TAGS_CONFIG knows, a padded header it does not
\* know, a column without a header, the first column once more; a user in
\* several columns, twice in one column and padded, and a user in the
\* column without a header only
MainTags ==
    << <<Following, <<" ","V","I","P"," ">>, E, Following>>,
       <<User(1), User(1), User(3), User(2)>>,
       <<<<" ">> \o User(1) \o <<" ">>, E, E, User(1)>> >>

\* the workbooks a run can find: every store with every Target sheet, a
\* workbook without a sheet "Target", one without a sheet "Tags" and two
\* whose sheet "Tags" names no user
Workbooks ==
    {[titles |-> {"Target", "Tags"}, sheet1 |-> s, target_sheet |-> t,
      tags_sheet |-> MainTags] : s \in MainStores, t \in TargetSheets}
    \cup {[titles |-> {"Tags"}, sheet1 |-> s, target_sheet |-> <<>>,
           tags_sheet |-> MainTags] : s \in MainStores}
    \cup {[titles |-> {"Target"}, sheet1 |-> s, target_sheet |-> AllPending(1),
           tags_sheet |-> <<>>] : s \in MainStores}
    \cup {[titles |-> {"Target", "Tags"}, sheet1 |-> s,
           target_sheet |-> AllPending(1), tags_sheet |-> t] :
            s \in MainStores, t \in {<<>>, << <<Following, Bookmark>> >>}}

Init ==
    /\ \E w \in Workbooks :
         /\ titles = w.titles
         /\ sheet1 = w.sheet1
         /\ target_sheet = w.target_sheet
         /\ tags_sheet = w.tags_sheet
    /\ sheet0 = sheet1
    /\ tags_mapping = <<>>
    /\ InitCommon
    /\ pcM = "browser"
    /\ target_users = <<>>
    /\ i = 1
    /\ scraped_profiles = <<>>
    /\ main_target_updates = <<>>
    /\ attempts = <<>>
    /\ logged = {}

Next ==
    \/ main_browser
    \/ main_login
    \/ main_client
    \/ main_targets
    \/ main_attempt
    \/ (export_target /\ UNCHANGED <<titles, tags_sheet, hvars, mvars>>)
    \/ (export_load /\ UNCHANGED <<titles, tags_sheet, hvars, mvars>>)
    \/ (export_record /\ UNCHANGED <<titles, tags_sheet, hvars, mvars>>)
    \/ (export_end /\ UNCHANGED <<titles, tags_sheet, hvars, mvars>>)
    \/ main_flushed
    \/ main_final
    \/ main_final_flushed
    \/ main_summary
    \/ main_interrupt
    \/ main_finally

Spec == Init /\ [][Next]_vars

(***************************************************************************)
(* What the claims speak of                                                *)
(***************************************************************************)
\* the outcomes of the records of the current flush (not the header row)
Records == {n \in 1..Len(xlog) : xlog[n].k > 0}

NickOf(e) == Strip(e.profile.NICKNAME)

InRowIndex(e) == NickOf(e) # E /\ NickOf(e) \in DOMAIN existing_rows

\* the row the Row Index holds for the record's identifier, 14 columns wide
StoredRow(e) == PadRow(existing_rows[NickOf(e)].data, 14)

Significant == {5, 6, 7, 8, 9, 10, 11, 14}

\* a write request to the store
IsWrite(e) == e.decision \in {"HEADER", "CREATE", "UPDATE"}

\* the store after the writes of a log that returned, applied to a store
RECURSIVE Replay(_, _)
Replay(sheet, log) ==
    IF log = <<>> THEN sheet
    ELSE LET e == log[1]
             next == IF ~e.ok THEN sheet
                     ELSE IF e.decision \in {"HEADER", "CREATE"}
                          THEN sheet \o <<e.row>>
                     ELSE IF e.decision = "UPDATE"
                          THEN [n \in 1..Len(sheet) |->
                                  IF n = e.row_index
                                  THEN e.row \o SubSeq(sheet[n], 15, Len(sheet[n]))
                                  ELSE sheet[n]]
                     ELSE sheet
         IN  Replay(next, Tail(log))

\* the record's TAGS and significance-set values are the stored ones
SameAsStored(e) ==
    /\ e.row[4] = StoredRow(e)[4]
    /\ \A c \in Significant : e.row[c] = StoredRow(e)[c]

C2_MonotonicFill ==
    \A n \in Records :
       LET e == xlog[n]
       IN  InRowIndex(e) /\ e.ok =>
              \A c \in Significant :
                 /\ e.row[c] = E
                 /\ c <= Len(sheet0[e.row_index])
                 /\ sheet0[e.row_index][c] # E
                 => sheet1[e.row_index][c] = sheet0[e.row_index][c]

\* a significance-set column with a new value that differs from the stored one
Differs(e) == {c \in Significant : e.row[c] # E /\ e.row[c] # StoredRow(e)[c]}

\* C3: a record in the Row Index with a new, different value in a
\* significance-set column is decided UPDATE; one write goes to the row the
\* Row Index names, and when it has returned that row holds the new values
C3_ChangedFieldUpdates ==
    /\ \A n \in Records :
          LET e == xlog[n]
          IN  InRowIndex(e) /\ Differs(e) # {} =>
                /\ e.decision = "UPDATE"
                /\ e.row_index = existing_rows[NickOf(e)].row_index
                /\ \A m \in Records : xlog[m].k = e.k => m = n
    /\ xlog # <<>> =>
          LET e == xlog[Len(xlog)]
          IN  e.k > 0 /\ InRowIndex(e) /\ Differs(e) # {} /\ e.ok =>
                \A c \in Differs(e) : sheet1[e.row_index][c] = e.row[c]

C3_Witness ==
    /\ xlog # <<>>
    /\ LET e == xlog[Len(xlog)]
       IN  /\ e.k > 0 /\ InRowIndex(e) /\ e.ok
           /\ \E c \in Differs(e) : StoredRow(e)[c] # E
           /\ sheet1[e.row_index] = e.row

\* a record in the Row Index whose tag string alone differs from the stored
\* row
TagsOnly(e) ==
    InRowIndex(e) /\ Differs(e) = {} /\ e.row[4] # StoredRow(e)[4]

\* C4: a record whose tag string alone differs from the stored row, the empty
\* tag string included, is decided UPDATE, and every UPDATE whose write
\* returned is counted in updated_count
C4_TagsAloneUpdate ==
    /\ \A n \in Records : TagsOnly(xlog[n]) => xlog[n].decision = "UPDATE"
    /\ counts.updated_count =
          Cardinality({n \in Records : xlog[n].decision = "UPDATE" /\ xlog[n].ok})

C4_Witness ==
    /\ pcX = "return"
    /\ \E n \in Records :
          /\ TagsOnly(xlog[n])
          /\ xlog[n].row[4] = E
          /\ xlog[n].ok
          /\ counts.updated_count = 1

\* C5: a record whose identifier is not in the Row Index is decided CREATE,
\* with the projected row of 14 columns; a CREATE whose write returned has
\* put that one row below the last row, and no write of the flush moved or
\* changed a row other than the one it was addressed to
C5_CreateAppends ==
    /\ \A n \in Records :
          LET e == xlog[n]
          IN  NickOf(e) # E /\ ~InRowIndex(e) =>
                /\ e.decision = "CREATE"
                /\ Len(e.row) = 14
                /\ e.row[3] = NickOf(e)
                /\ e.row[1] = e.profile.DATE /\ e.row[5] = e.profile.CITY
                /\ e.row[8] = e.profile.AGE
                /\ e.row[4] = get_tags_for_nickname(NickOf(e), tags_mapping)
    /\ sheet1 = Replay(sheet0, xlog)
    /\ xlog # <<>> /\ xlog[Len(xlog)].decision = "CREATE" /\ xlog[Len(xlog)].ok =>
          /\ sheet1[Len(sheet1)] = xlog[Len(xlog)].row
          /\ Len(sheet1) = Len(Replay(sheet0, SubSeq(xlog, 1, Len(xlog) - 1))) + 1

C5_Witness ==
    /\ Len(sheet0) >= 2
    /\ Len(xlog) = 2
    /\ xlog[1].decision = "CREATE" /\ xlog[1].ok
    /\ xlog[2].decision = "CREATE" /\ xlog[2].ok
    /\ Len(sheet1) = Len(sheet0) + 2
    /\ SubSeq(sheet1, 1, Len(sheet0)) = sheet0

\* C6: a record write that raised is issued a second time: the flush holds
\* a second outcome for the same record
C6_ThrottleRetry ==
    \A n \in Records :
       ~xlog[n].ok => \E m \in Records : m > n /\ xlog[m].k = xlog[n].k

\* C7: no more than Quota write requests are issued without a pause between
\* two of them
C7_RateCompliance == burst <= Quota

\* the decision of a record, from the Row Index and the record alone
Expected(e) ==
    IF NickOf(e) = E THEN "DROP"
    ELSE IF ~InRowIndex(e) THEN "CREATE"
    ELSE IF Differs(e) # {} \/ e.row[4] # StoredRow(e)[4] THEN "UPDATE"
    ELSE "NOOP"

HeaderWrites == Cardinality({n \in 1..Len(xlog) : xlog[n].k = 0})

\* C8: whether or not the write of an earlier record raised, each record of
\* the batch is reconciled once, in batch order, with the decision and the
\* row that the Row Index and the record give; the writes that returned are
\* all in the store, and a record whose write raised is counted neither in
\* new_count nor in updated_count
C8_FailureIsolation ==
    /\ \A n \in Records :
          LET e == xlog[n]
          IN  /\ e.k = n - HeaderWrites
              /\ e.profile.NICKNAME = profiles_batch[e.k].NICKNAME
              /\ e.decision = Expected(e)
              /\ e.decision # "DROP" =>
                   e.row = project_row(profiles_batch[e.k], NickOf(e))
    /\ pcX = "return" /\ ret => Cardinality(Records) = Len(profiles_batch)
    /\ sheet1 = Replay(sheet0, xlog)
    /\ counts.new_count =
          Cardinality({n \in Records : xlog[n].decision = "CREATE" /\ xlog[n].ok})
    /\ counts.updated_count =
          Cardinality({n \in Records : xlog[n].decision = "UPDATE" /\ xlog[n].ok})

C8_Witness ==
    /\ pcX = "return" /\ ret
    /\ Len(xlog) = 2
    /\ ~xlog[1].ok /\ xlog[1].decision = "UPDATE"
    /\ xlog[2].ok /\ xlog[2].decision = "CREATE"
    /\ sheet1 = Append(sheet0, xlog[2].row)
    /\ counts = [new_count |-> 1, updated_count |-> 0]

\* a flush of main is under way or has just returned
InFlush == pcM \in {"export", "final_export"}

\* the update queued for an attempt: Completed for a profile, Pending with a
\* note for no profile or a raise
Queued(a, u) ==
    /\ u.row_index = a.row_index
    /\ IF a.outcome = "profile"
       THEN u.status = Completed
       ELSE u.status = Pending /\ u.notes # E

\* the updates not yet cleared are those of the latest attempts, in order
QueuedAsAttempted ==
    /\ Len(main_target_updates) <= Len(attempts)
    /\ \A j \in 1..Len(main_target_updates) :
          Queued(attempts[Len(attempts) - Len(main_target_updates) + j],
                 main_target_updates[j])
    /\ InFlush => target_updates = main_target_updates

\* the cell write of column c for update u returned
Written(u, c) ==
    \E n \in 1..Len(cells) :
       cells[n].ok /\ cells[n].w.r = u.row_index /\ cells[n].w.c = c

OnlyCompletedOrPending ==
    \A n \in 1..Len(cells) :
       cells[n].w.c = 2 => cells[n].w.value \in {Completed, Pending}

IsCandidate(row) ==
    /\ Len(row) >= 2
    /\ Strip(row[1]) # E
    /\ Lower(Strip(row[2])) = <<"p","e","n","d","i","n","g">>

\* the positions of the rows to do, in row order
RECURSIVE CandidatePositions(_, _)
CandidatePositions(sheet, n) ==
    IF n > Len(sheet) THEN <<>>
    ELSE (IF IsCandidate(sheet[n]) THEN <<n>> ELSE <<>>)
         \o CandidatePositions(sheet, n + 1)

\* the Target sheet exists and its header names USERNAME and STATUS
TargetWellFormed ==
    /\ "Target" \in titles
    /\ Len(target_sheet) >= 2
    /\ Len(target_sheet[1]) >= 2
    /\ Contains(Upper(target_sheet[1][1]), USERNAME)
    /\ Contains(Upper(target_sheet[1][2]), STATUS)

\* C10: on a Target sheet whose header names USERNAME and STATUS, the
\* candidates are the rows from row 2 on with a user name and the status
\* pending (but for case and padding), in row order, each with its position
\* and trimmed user name; main attempts the candidates in that order, each
\* once, all of them when it gets to the summary, and every Target write
\* goes to the row of a candidate already attempted
C10_CandidateSelection ==
    /\ pcM \in {"loop", "export", "final_export", "summary"} /\ flushes = 0
       /\ TargetWellFormed =>
          LET pos == CandidatePositions(target_sheet, 2)
          IN  /\ Len(target_users) = Len(pos)
              /\ \A j \in 1..Len(pos) :
                    /\ target_users[j].row_index = pos[j]
                    /\ target_users[j].username = Strip(target_sheet[pos[j]][1])
    /\ Len(attempts) <= Len(target_users)
    /\ \A j \in 1..Len(attempts) :
          /\ attempts[j].row_index = target_users[j].row_index
          /\ attempts[j].username = target_users[j].username
    /\ pcM = "loop" => Len(attempts) = i - 1
    /\ pcM = "summary" => Len(attempts) = Len(target_users)
    /\ \A n \in 1..Len(cells) :
          \E j \in 1..Len(attempts) : attempts[j].row_index = cells[n].w.r

C10_Witness ==
    /\ pcM = "summary"
    /\ target_sheet[1] = TargetHeader
    /\ Len(target_sheet) = 7
    /\ Len(attempts) = 3
    /\ attempts[1].row_index = 3 /\ attempts[2].row_index = 4
    /\ attempts[2].username = User(2)
    /\ attempts[3].row_index = 7
    /\ target_sheet[3][2] = Completed
    /\ target_sheet[6][2] = <<"D","o","n","e">>

\* C11: a run that ends while records or target updates are accumulated
\* has handed them to export_to_google_sheets: main ends only with both
\* lists empty, with a flush of them under way, or after the final flush
C11_FlushBeforeExit ==
    [][pcM # "done" /\ pcM' = "done" =>
         \/ scraped_profiles = <<>> /\ main_target_updates = <<>>
         \/ pcM \in {"export", "final_export", "summary", "finally"}]_vars

\* C12: a run that has ended has reported the final summary
C12_SummaryOnExit == pcM = "done" => "summary" \in logged

\* no two data rows of the sheet name the same identifier
UniqueIds(sheet) ==
    \A m, n \in 2..Len(sheet) :
       /\ m # n
       /\ RowHasNick(sheet[m]) /\ RowHasNick(sheet[n])
       => Strip(Col(sheet[m], 2)) # Strip(Col(sheet[n], 2))

\* C13: a flush that starts on a store with at most one data row for an
\* identifier leaves at most one data row for every identifier
C13_OneRowPerEntity == UniqueIds(sheet0) => UniqueIds(sheet1)

\* the identifiers of the data rows of a sheet
IdsOf(sheet) ==
    {Strip(Col(sheet[n], 2)) : n \in {m \in 2..Len(sheet) : RowHasNick(sheet[m])}}

\* the record's write came back: its row is in the store
Applied(e) == e.k > 0 /\ e.ok /\ e.decision \in {"CREATE", "UPDATE"}

\* C14: the Row Index of a flush holds the identifiers of the data rows the
\* store has when the flush starts; in the flush after one that created or
\* updated a record, the identifier is in the Row Index with the values of
\* the last such write, and a record of that identifier is not decided
\* CREATE
C14_CrossFlushVisibility ==
    /\ pcX = "loop" => DOMAIN existing_rows = IdsOf(sheet0)
    /\ repeat /\ pcX = "loop" =>
          \A m \in 1..Len(prev_xlog) :
             Applied(prev_xlog[m]) =>
                LET nick == NickOf(prev_xlog[m])
                IN  /\ nick \in DOMAIN existing_rows
                    /\ existing_rows[nick].row_index >= 2
                    /\ (\A q \in (m + 1)..Len(prev_xlog) :
                           ~(Applied(prev_xlog[q]) /\ NickOf(prev_xlog[q]) = nick))
                       => PadRow(existing_rows[nick].data, 14) = prev_xlog[m].row
                    /\ \A n \in Records :
                          NickOf(xlog[n]) = nick => xlog[n].decision # "CREATE"

C14_Witness ==
    /\ repeat /\ pcX = "return"
    /\ \E m \in 1..Len(prev_xlog) : \E n \in Records :
          /\ prev_xlog[m].decision = "CREATE" /\ prev_xlog[m].ok
          /\ xlog[n].k = prev_xlog[m].k
          /\ xlog[n].decision = "NOOP"
          /\ sheet1[xlog[n].row_index] = prev_xlog[m].row

\* no export_to_google_sheets call and no write request so far
NothingWritten ==
    /\ flushes = 0 /\ pcX = "idle"
    /\ burst = 0 /\ cells = <<>> /\ xlog = <<>>
    /\ sheet1 = sheet0

\* C15: once login_to_damadam has returned False, main is at its finally
\* clause or has ended, no target has been attempted,
\* export_to_google_sheets has not been called and no write request has
\* been issued
C15_AuthFailureWriteFree ==
    "auth_failed" \in logged =>
       /\ pcM \in {"finally", "done"}
       /\ attempts = <<>>
       /\ NothingWritten

C15_Witness ==
    /\ "auth_failed" \in logged
    /\ pcM = "done"
    /\ "completed" \in logged
    /\ Len(target_sheet) >= 2 /\ TargetWellFormed

\* C16: with the Target sheet absent, without data rows or with a header
\* that does not name USERNAME and STATUS, main has no candidates, attempts
\* no target, never enters the loop, calls no export and issues no write;
\* having found no candidates it goes to its finally clause and ends,
\* uninterrupted
C16_NoTargetTable ==
    /\ ~TargetWellFormed =>
          /\ target_users = <<>>
          /\ attempts = <<>>
          /\ pcM \notin {"loop", "export", "final_export", "summary"}
          /\ NothingWritten
    /\ "no_targets" \in logged =>
          /\ pcM \in {"finally", "done"}
          /\ "interrupted" \notin logged
          /\ NothingWritten

C16_Witness ==
    /\ ~TargetWellFormed
    /\ "Target" \in titles
    /\ Len(target_sheet) >= 2
    /\ IsCandidate(target_sheet[2])
    /\ "no_targets" \in logged
    /\ pcM = "done"

\* the rows of the store at the start of the flush that name an identifier
RowsOf(nick) ==
    {n \in 2..Len(sheet0) : RowHasNick(sheet0[n]) /\ Strip(Col(sheet0[n], 2)) = nick}

\* C17: the Row Index entry of an identifier is the last of the rows of the
\* store that name it, with that row's values; an UPDATE of a record goes
\* to that position; a row that no UPDATE of the flush was addressed to,
\* an earlier row of the same identifier among them, is as it was
C17_LastSeenWins ==
    /\ pcX = "loop" =>
          \A nick \in DOMAIN existing_rows :
             LET info == existing_rows[nick]
             IN  /\ info.row_index \in RowsOf(nick)
                 /\ \A n \in RowsOf(nick) : n <= info.row_index
                 /\ PadRow(info.data, 14) = PadRow(sheet0[info.row_index], 14)
    /\ \A n \in Records :
          xlog[n].decision = "UPDATE" =>
             /\ xlog[n].row_index \in RowsOf(NickOf(xlog[n]))
             /\ \A m \in RowsOf(NickOf(xlog[n])) : m <= xlog[n].row_index
    /\ \A m \in 1..Len(sheet0) :
          (\A n \in Records : ~(xlog[n].decision = "UPDATE" /\ xlog[n].ok
                                 /\ xlog[n].row_index = m))
          => sheet1[m] = sheet0[m]

C17_Witness ==
    /\ Len(xlog) = 1
    /\ xlog[1].decision = "UPDATE" /\ xlog[1].ok
    /\ Cardinality(RowsOf(NickOf(xlog[1]))) = 2
    /\ xlog[1].row_index = 4
    /\ sheet1[4] = xlog[1].row /\ sheet1[4] # sheet0[4]
    /\ sheet1[2] = sheet0[2]
    /\ \E c \in Significant : xlog[1].row[c] # E /\ xlog[1].row[c] = sheet0[2][c]
                              /\ xlog[1].row[c] # sheet0[4][c]

\* the store of the start of the flush is empty or its first row is
BlankStart ==
    \/ sheet0 = <<>>
    \/ \A c \in 1..Len(sheet0[1]) : sheet0[1][c] = E

\* C18: in a flush that started on a store that is empty or whose first row
\* is empty, once the write of a record has returned row 1 of the store is
\* the header of 14 columns and the record's row is at position 2 or below
C18_HeaderBeforeData ==
    BlankStart /\ (\E n \in Records : Applied(xlog[n])) =>
       /\ sheet1[1] = headers
       /\ Len(sheet1) >= 2

\* main has its Tag Index
HasTagIndex == pcM \in {"targets", "loop", "export", "final_export", "summary"}

\* the cells of the Tags sheet, below a header that is not blank, that name
\* the identifier: <<column, row>>
Occurrences(nick) ==
    {o \in (1..Len(tags_sheet[1])) \X (2..Len(tags_sheet)) :
        /\ Strip(tags_sheet[1][o[1]]) # E
        /\ o[1] <= Len(tags_sheet[o[2]])
        /\ Strip(tags_sheet[o[2]][o[1]]) = nick}

\* the place of an occurrence, columns left to right and rows top down
Rank(o, nick) ==
    1 + Cardinality({q \in Occurrences(nick) :
                        q[1] < o[1] \/ (q[1] = o[1] /\ q[2] < o[2])})

\* the configured label of a known header, the pin label of another
LabelOf(header) ==
    IF Strip(header) \in DOMAIN TAGS_CONFIG THEN TAGS_CONFIG[Strip(header)]
    ELSE <<"pin", " ">> \o Strip(header)

ExpectedTags(nick) ==
    IF tags_sheet = <<>> THEN E
    ELSE Join(<<",", " ">>,
              [j \in 1..Cardinality(Occurrences(nick)) |->
                 LabelOf(tags_sheet[1][
                    (CHOOSE o \in Occurrences(nick) : Rank(o, nick) = j)[1]])])

\* C19: with the Tags sheet read, the TAGS string of an identifier is the
\* labels of the columns in which it appears, columns left to right, one
\* label for every occurrence, joined by ", "; a header TAGS_CONFIG knows
\* gives its configured label, another header its pin label, and an
\* identifier in no column gives the empty string. It is the string every
\* candidate resolves to and the TAGS column of every record reconciled
C19_TagAggregation ==
    HasTagIndex /\ "Tags" \in titles /\ "tags_failed" \notin logged =>
       /\ \A j \in 1..Len(target_users) :
             get_tags_for_nickname(target_users[j].username, tags_mapping)
                = ExpectedTags(target_users[j].username)
       /\ \A n \in Records :
             xlog[n].decision # "DROP" =>
                xlog[n].row[4] = ExpectedTags(NickOf(xlog[n]))

C19_Witness ==
    /\ HasTagIndex
    /\ \E n, m \in Records :
          /\ NickOf(xlog[n]) = User(1) /\ xlog[n].ok
          /\ xlog[n].row[4] =
                <<"link", " ">> \o Following \o <<",", " ", "link", " ">> \o Following
                \o <<",", " ", "pin", " ", "V", "I", "P">>
                \o <<",", " ", "link", " ">> \o Following
          /\ NickOf(xlog[m]) = User(3) /\ xlog[m].row[4] = E

\* C20: with the Tags sheet absent, or its read failed, main has reported
\* it and goes on with an empty Tag Index: every record is reconciled with
\* an empty TAGS, and main reaches its finally clause only by way of the
\* summary or for want of candidates
C20_MissingTagsNonFatal ==
    /\ HasTagIndex /\ "Tags" \notin titles => "tags_missing" \in logged
    /\ "tags_missing" \in logged \/ "tags_failed" \in logged =>
          /\ "sheets_failed" \notin logged
          /\ HasTagIndex => tags_mapping = <<>>
          /\ \A n \in Records :
                xlog[n].decision # "DROP" => xlog[n].row[4] = E
          /\ pcM = "finally" => "summary" \in logged \/ "no_targets" \in logged

C20_Witness ==
    /\ "Tags" \notin titles
    /\ "tags_missing" \in logged
    /\ pcM = "final_export" /\ pcX = "return"
    /\ \E n \in Records :
          /\ xlog[n].decision = "UPDATE" /\ xlog[n].ok
          /\ xlog[n].row[4] = E
          /\ sheet1[xlog[n].row_index] = xlog[n].row

\* the step of the flush loop that reconciles record k of the batch
RecordStep == pcX = "loop" /\ k <= Len(profiles_batch) /\ k' = k + 1

\* a record of the flush before record k was dropped
DroppedBefore == \E n \in Records : xlog[n].decision = "DROP"

\* C21: the step that reconciles a record whose nickname is empty after
\* trimming logs it as dropped and changes neither the store, the number of
\* write requests, new_count and updated_count, the run statistics with their
\* error count, nor the batch, and leaves the loop at the next record; every
\* record reconciled after a dropped one gets the decision and the row that
\* the Row Index and the record give
C21_EmptyIdentifierDropped ==
    [][ RecordStep =>
          LET e == xlog'[Len(xlog')]
          IN  /\ Len(xlog') = Len(xlog) + 1
              /\ e.k = k
              /\ pcX' = "loop"
              /\ Strip(profiles_batch[k].NICKNAME) = E =>
                    /\ e.decision = "DROP" /\ e.ok /\ e.row = <<>>
                    /\ UNCHANGED <<sheet1, burst, counts, stats, fails, cells,
                                   profiles_batch, target_sheet>>
              /\ DroppedBefore =>
                    /\ e.decision = Expected(e)
                    /\ e.decision # "DROP" =>
                          e.row = project_row(profiles_batch'[k], NickOf(e))
    ]_vars

C21_Witness ==
    /\ pcX = "return" /\ ret
    /\ Len(profiles_batch) = 2
    /\ Strip(profiles_batch[1].NICKNAME) = E
    /\ profiles_batch[1].NICKNAME # E
    /\ \E n \in Records :
          /\ xlog[n].k = 1 /\ xlog[n].decision = "DROP"
          /\ xlog[n + 1].k = 2 /\ xlog[n + 1].decision = "CREATE" /\ xlog[n + 1].ok
          /\ sheet1[Len(sheet1)] = xlog[n + 1].row
    /\ counts.new_count = 1 /\ counts.updated_count = 0
    /\ stats.errors = 0

\* the columns outside TAGS and the significance set
Volatile == {1, 2, 12, 13}

\* a record in the Row Index that differs from the stored row in volatile
\* columns alone
VolatileOnly(e) ==
    /\ InRowIndex(e)
    /\ SameAsStored(e)
    /\ \E c \in Volatile : e.row[c] # StoredRow(e)[c]

\* a write of the flush that returned and was addressed to row ri
Rewritten(ri) ==
    \E m \in 1..Len(xlog) :
       xlog[m].decision = "UPDATE" /\ xlog[m].ok /\ xlog[m].row_index = ri

LoopFlush == pcM = "export"

\* C23 as stated: a flush issued before the end of the candidates carries at
\* least batch_size records
C23_BatchThreshold == LoopFlush => Len(scraped_profiles) >= batch_size

\* C23: a flush issued before the end of the candidates is issued by the
\* first attempt that did not raise with batch_size or more status updates
\* queued; it carries every queued update and the records scraped since the
\* last flush, one for each Completed update and so possibly none, and
\* between flushes fewer than batch_size records are held
C23_BatchThresholdOnUpdates ==
    /\ Len(scraped_profiles) =
          Cardinality({n \in 1..Len(main_target_updates) :
                          main_target_updates[n].status = Completed})
    /\ LoopFlush =>
          /\ Len(main_target_updates) >= batch_size
          /\ attempts[Len(attempts)].outcome # "raise"
          /\ \A n \in 1..(Len(main_target_updates) - 1) :
                n >= batch_size =>
                   attempts[Len(attempts) - Len(main_target_updates) + n].outcome
                      = "raise"
          /\ Len(profiles_batch) = Len(scraped_profiles)
          /\ \A n \in 1..Len(profiles_batch) :
                profiles_batch[n].NICKNAME = scraped_profiles[n].NICKNAME
          /\ target_updates = main_target_updates
    /\ pcM = "loop" =>
          /\ Len(scraped_profiles) < batch_size
          /\ main_target_updates # <<>>
              /\ attempts[Len(attempts)].outcome # "raise"
              => Len(main_target_updates) < batch_size

C23_Witness ==
    /\ LoopFlush
    /\ pcX = "return"
    /\ Len(main_target_updates) = batch_size
    /\ Len(scraped_profiles) = 2
    /\ Len(profiles_batch) = 2

\* the step is an append_row of a data row that returned
DataAppended == RecordStep /\ Len(sheet1') = Len(sheet1) + 1

\* the step is a row update that returned
RowUpdated ==
    /\ RecordStep
    /\ Len(xlog') = Len(xlog) + 1
    /\ xlog'[Len(xlog')].decision = "UPDATE" /\ xlog'[Len(xlog')].ok

\* C24: new_profiles and updated_profiles of the run statistics are zero at
\* the start; a step adds one to new_profiles exactly when it is an
\* append_row of a data row that returned and one to updated_profiles
\* exactly when it is a row update that returned, so a NO-OP, a dropped
\* record and a write that raised add nothing, and no step but the
\* reconciliation of one record of a flush adds to either, and then to one
\* of them
C24_StatsMatchWrites ==
    /\ stats.new_profiles = 0 /\ stats.updated_profiles = 0
    /\ [][ LET dn == stats'.new_profiles - stats.new_profiles
               du == stats'.updated_profiles - stats.updated_profiles
           IN  /\ dn = IF DataAppended THEN 1 ELSE 0
               /\ du = IF RowUpdated THEN 1 ELSE 0
               /\ dn + du <= 1
               /\ dn + du = 1 => RecordStep
               /\ RecordStep /\ Len(xlog') = Len(xlog) + 1
                   /\ ( \/ xlog'[Len(xlog')].decision \in {"NOOP", "DROP"}
                        \/ ~xlog'[Len(xlog')].ok )
                   => dn = 0 /\ du = 0
       ]_vars

C24_Witness ==
    /\ pcX = "return"
    /\ stats.new_profiles = 1
    /\ stats.updated_profiles = 1
    /\ fails = 1
    /\ \E n \in Records : xlog[n].decision = "UPDATE" /\ xlog[n].ok
    /\ \E n \in Records : xlog[n].decision \in {"NOOP", "DROP"}

\* the attempt that queued update j of the flush
AttemptOf(j) == attempts[Len(attempts) - Len(target_updates) + j]

\* C25: when a flush of main has returned, every candidate whose STATUS the
\* flush has set to Completed has a row in the store
C25_CompletedImpliesPersisted ==
    InFlush /\ pcX = "return" =>
       \A j \in 1..Len(target_updates) :
          LET u == target_updates[j]
          IN  /\ u.status = Completed
              /\ Written(u, 2)
              /\ target_sheet[u.row_index][2] = Completed
              => AttemptOf(j).username \in IdsOf(sheet1)

\* the attempts made so far with one of the given outcomes
Outcomes(set) ==
    Cardinality({n \in 1..Len(attempts) : attempts[n].outcome \in set})

\* main is past the initialisation of the loop (line 780)
InLoop == pcM \in {"loop", "export", "final_export", "summary"}

\* C26: once the candidates are read, between the iterations of the loop and
\* after it, success + errors is current, the number of candidates attempted,
\* the attempts being the candidates in their order; success counts the
\* attempts that gave a profile and errors those that gave none or raised;
\* total is the number of candidates and success is never above it
C26_AttemptAccounting ==
    InLoop =>
       /\ stats.total = Len(target_users)
       /\ stats.current = Len(attempts)
       /\ stats.success + stats.errors = stats.current
       /\ stats.success = Outcomes({"profile"})
       /\ stats.errors = Outcomes({"none", "raise"})
       /\ \A n \in 1..Len(attempts) :
             /\ attempts[n].username = target_users[n].username
             /\ attempts[n].row_index = target_users[n].row_index
       /\ stats.success <= stats.total
       /\ stats.current <= stats.total

C26_Witness ==
    /\ pcM = "summary"
    /\ stats.total = 3
    /\ stats.current = 3
    /\ stats.success = 1
    /\ stats.errors = 2
    /\ Outcomes({"none"}) = 1
    /\ Outcomes({"raise"}) = 1

\* C27: the step of a row update that returned leaves the store with as many
\* rows as before and every row but one as it was; the one row is at the
\* position the Row Index records for the record's identifier, its columns
\* A to N are the record's row and the columns right of N are as they were
C27_UpdateFrame ==
    [][ RowUpdated =>
          LET e == xlog'[Len(xlog')]
              ri == existing_rows[NickOf(e)].row_index
          IN  /\ InRowIndex(e)
              /\ e.row_index = ri
              /\ ri \in 2..Len(sheet1)
              /\ Len(sheet1') = Len(sheet1)
              /\ \A m \in 1..Len(sheet1) : m # ri => sheet1'[m] = sheet1[m]
              /\ Len(e.row) = 14
              /\ SubSeq(sheet1'[ri], 1, 14) = e.row
              /\ SubSeq(sheet1'[ri], 15, Len(sheet1'[ri]))
                    = SubSeq(sheet1[ri], 15, Len(sheet1[ri]))
              /\ existing_rows' = existing_rows
    ]_vars

C27_Witness ==
    /\ pcX = "return"
    /\ Len(sheet1) = 2 /\ Len(sheet0) = 2
    /\ Len(sheet0[2]) = 15 /\ Len(sheet1[2]) = 15
    /\ sheet1[2][15] = sheet0[2][15] /\ sheet1[2][15] # E
    /\ sheet1[1] = sheet0[1]
    /\ \E n \in Records :
          /\ xlog[n].decision = "UPDATE" /\ xlog[n].ok /\ xlog[n].row_index = 2
          /\ SubSeq(sheet1[2], 1, 14) = xlog[n].row
          /\ SubSeq(sheet0[2], 1, 14) # xlog[n].row

====
